---- MODULE Spec2Model ----
(***************************************************************************)
(* A model of GridRoom (src/src/grid_room/mod.rs): a fixed-size grid of    *)
(* optional entity references plus the name -> position index of the       *)
(* mobile entities, with the operations add_entity and move_entity (and    *)
(* the private swap that move_entity commits with).                        *)
(*                                                                         *)
(* Every operation is one atomic action.  `result` records which operation *)
(* ran last and what it returned; a step (state, next state) of            *)
(* AddEntity(e, p, s) or MoveEntity(e, mv) is one execution of that call   *)
(* on the unprimed room, so the properties of a call are stated as         *)
(* properties of the steps of its action.                                  *)
(***************************************************************************)
EXTENDS Integers, Sequences, FiniteSets

\* ---------------------------------------------------------------- bounds
\* Size of the room handed to GridRoom::new (width = columns, height = rows).
Width == 3
Height == 3
\* Largest Movement.distance a caller passes.
MaxDistance == 3
\* Number of add_entity calls a run makes.
MaxAdds == 2

\* usize arithmetic wraps modulo 2^64 when overflow checks are off.  TLC's
\* integers are 32 bits wide, so the modulus is scaled to 2^30: all that the
\* code observes of a wrapped value is that it exceeds every grid dimension
\* and every start coordinate, which 2^30 - k (k <= MaxDistance) does too.
UsizeModulus == 1073741824

\* ---------------------------------------------------------------- values
Entities == {"A", "B"}
None == "None"
Directions == {"Up", "Down", "Left", "Right"}

Position(x, y) == [x |-> x, y |-> y]

\* The cells of Grid::new(size.height, size.width).
Cells == {Position(x, y) : x \in 0..(Width - 1), y \in 0..(Height - 1)}

Movement(distance, direction) == [distance |-> distance, direction |-> direction]

\* The last operation and its Result: kind is "Ok" (add_entity), "Success",
\* "Failure" or "Collision" (move_entity, with the entities Collision carries),
\* "Err" (MapError::OutOfBounds) or "Panic" (the call aborted, nothing returned).
Outcome(op, kind, entities) == [op |-> op, kind |-> kind, entities |-> entities]

VARIABLES
    grid,             \* GridRoom.grid: cell -> entity or None
    mobile_entities,  \* GridRoom.mobile_entities: name -> Position (partial)
    result,           \* the last operation and what it returned
    placed_mobile,    \* history: names add_entity has placed with is_static = false
    adds              \* number of add_entity calls made

vars == <<grid, mobile_entities, result, placed_mobile, adds>>

\* ------------------------------------------------------------ Grid Store
\* Grid::get / Grid::get_mut: Some(cell) iff row < rows and col < cols.
InBounds(p) == p.y < Height /\ p.x < Width

\* BTreeMap::insert
MapInsert(m, k, v) == [n \in (DOMAIN m) \cup {k} |-> IF n = k THEN v ELSE m[n]]

\* --------------------------------------------------------------- add_entity
\* add_entity as it would be with the index updated before the bounds check.
AddEntityOutcome_IndexFirst(g, m, entity, position, is_static) ==
    LET inserted == IF is_static THEN m ELSE MapInsert(m, entity, position)
    IN  IF ~InBounds(position)
        THEN [kind |-> "Err", entities |-> <<>>, grid |-> g, mobile_entities |-> inserted]
        ELSE [kind |-> "Ok", entities |-> <<>>,
              grid |-> [g EXCEPT ![position] = entity],
              mobile_entities |-> inserted]

\* add_entity as it would be if it left an occupied cell alone.
AddEntityOutcome_KeepOccupant(g, m, entity, position, is_static) ==
    IF ~InBounds(position)
    THEN [kind |-> "Err", entities |-> <<>>, grid |-> g, mobile_entities |-> m]
    ELSE [kind |-> "Ok", entities |-> <<>>,
          grid |-> IF g[position] = None THEN [g EXCEPT ![position] = entity] ELSE g,
          mobile_entities |-> IF is_static THEN m ELSE MapInsert(m, entity, position)]

\* add_entity(entity, position, is_static): the outcome and the room after it.
AddEntityOutcome(g, m, entity, position, is_static) ==
    IF ~InBounds(position)
    THEN [kind |-> "Err", entities |-> <<>>, grid |-> g, mobile_entities |-> m]
    ELSE [kind |-> "Ok", entities |-> <<>>,
          grid |-> [g EXCEPT ![position] = entity],
          mobile_entities |-> IF is_static THEN m ELSE MapInsert(m, entity, position)]

\* -------------------------------------------------------------- move_entity
\* a - b on usize: panics when overflow checks are on, wraps otherwise.
UsizeSub(a, b, oc) ==
    IF a >= b THEN [panic |-> FALSE, value |-> a - b]
    ELSE IF oc THEN [panic |-> TRUE, value |-> 0]
    ELSE [panic |-> FALSE, value |-> a - b + UsizeModulus]

\* The half-open range lo..hi as a sequence (empty when hi <= lo).
Range(lo, hi) == IF hi <= lo THEN <<>> ELSE [i \in 1..(hi - lo) |-> lo + i - 1]

\* Iterator::rev
Rev(s) == [i \in 1..Len(s) |-> s[Len(s) + 1 - i]]

\* The match on movement.direction: the end position and the traversed tiles.
Path(start, movement, oc) ==
    LET d == movement.distance
        lowY == UsizeSub(start.y, d, oc)
        lowX == UsizeSub(start.x, d, oc)
        ys == Range(start.y, start.y + d)
        xs == Range(start.x, start.y + d)
        downYs == Rev(Range(lowY.value, start.y))
        leftXs == Rev(Range(lowX.value, start.x))
    IN  CASE movement.direction = "Up" ->
               [panic |-> FALSE,
                end |-> Position(start.x, start.y + d),
                traversed_tiles |-> [i \in 1..Len(ys) |-> Position(start.x, ys[i] + 1)]]
          [] movement.direction = "Down" ->
               [panic |-> lowY.panic,
                end |-> Position(start.x, lowY.value),
                traversed_tiles |-> [i \in 1..Len(downYs) |-> Position(start.x, downYs[i])]]
          [] movement.direction = "Left" ->
               [panic |-> lowX.panic,
                end |-> Position(lowX.value, start.y),
                traversed_tiles |-> [i \in 1..Len(leftXs) |-> Position(leftXs[i], start.y)]]
          [] movement.direction = "Right" ->
               [panic |-> FALSE,
                end |-> Position(start.x + d, start.y),
                traversed_tiles |-> [i \in 1..Len(xs) |-> Position(xs[i] + 1, start.y)]]

\* swap as it would be with the index updated before the end cell is checked.
Swap_IndexFirst(g, m, start, end) ==
    IF ~InBounds(start) THEN [kind |-> "Panic", grid |-> g, mobile_entities |-> m]
    ELSE IF g[start] = None THEN [kind |-> "Panic", grid |-> g, mobile_entities |-> m]
    ELSE LET entity == g[start]
             written == [g EXCEPT ![end] = entity]
             cleared == [written EXCEPT ![start] = None]
         IN  IF ~InBounds(end)
             THEN [kind |-> "Ok", grid |-> g,
                   mobile_entities |-> MapInsert(m, entity, end)]
             ELSE [kind |-> "Ok", grid |-> cleared,
                   mobile_entities |-> MapInsert(m, entity, end)]

\* swap as it would be if it left the start cell as it was.
Swap_KeepStart(g, m, start, end) ==
    IF ~InBounds(start) THEN [kind |-> "Panic", grid |-> g, mobile_entities |-> m]
    ELSE IF g[start] = None THEN [kind |-> "Panic", grid |-> g, mobile_entities |-> m]
    ELSE IF ~InBounds(end) THEN [kind |-> "Err", grid |-> g, mobile_entities |-> m]
    ELSE LET entity == g[start]
             written == [g EXCEPT ![end] = entity]
         IN  [kind |-> "Ok", grid |-> written,
              mobile_entities |-> MapInsert(m, entity, end)]

\* swap(start, end): moves whatever occupies `start` to `end` and records that
\* occupant's name at `end` in the index.  Unwrapping an out-of-bounds or empty
\* start cell panics; an out-of-bounds end is Err(OutOfBounds) before any write.
Swap(g, m, start, end) ==
    IF ~InBounds(start) THEN [kind |-> "Panic", grid |-> g, mobile_entities |-> m]
    ELSE IF g[start] = None THEN [kind |-> "Panic", grid |-> g, mobile_entities |-> m]
    ELSE IF ~InBounds(end) THEN [kind |-> "Err", grid |-> g, mobile_entities |-> m]
    ELSE LET entity == g[start]
             written == [g EXCEPT ![end] = entity]
             cleared == [written EXCEPT ![start] = None]
         IN  [kind |-> "Ok", grid |-> cleared,
              mobile_entities |-> MapInsert(m, entity, end)]

\* `self.swap(start, resolved)?; return Ok(outcome)`
Commit(g, m, start, resolved, kind, entities) ==
    LET sw == Swap(g, m, start, resolved)
    IN  IF sw.kind = "Ok"
        THEN [kind |-> kind, entities |-> entities,
              grid |-> sw.grid, mobile_entities |-> sw.mobile_entities]
        ELSE [kind |-> sw.kind, entities |-> <<>>, grid |-> g, mobile_entities |-> m]

\* The tile-by-tile walk: the first tile that is out of bounds or occupied
\* decides the call; with none, the entity is committed to `end`.
Walk(g, m, entity, start, end, traversed_tiles) ==
    LET stops == {i \in 1..Len(traversed_tiles) :
                     \/ ~InBounds(traversed_tiles[i])
                     \/ g[traversed_tiles[i]] # None}
    IN  IF stops = {} THEN Commit(g, m, start, end, "Success", <<>>)
        ELSE LET i == CHOOSE k \in stops : \A j \in stops : k <= j
                 tile == traversed_tiles[i]
             IN  IF InBounds(tile)
                 THEN \* occupied: traversed_tiles[tile_index - 1]
                      IF i = 1
                      THEN [kind |-> "Panic", entities |-> <<>>,
                            grid |-> g, mobile_entities |-> m]
                      ELSE Commit(g, m, start, traversed_tiles[i - 1],
                                  "Collision", <<entity, g[tile]>>)
                 ELSE IF i = 1
                      THEN [kind |-> "Err", entities |-> <<>>,
                            grid |-> g, mobile_entities |-> m]
                      ELSE Commit(g, m, start, traversed_tiles[i - 1], "Failure", <<>>)

MoveEntityOutcome(g, m, entity, movement, oc) ==
    IF entity \notin DOMAIN m
    THEN [kind |-> "Err", entities |-> <<>>, grid |-> g, mobile_entities |-> m]
    ELSE LET start == m[entity]
             path == Path(start, movement, oc)
         IN  IF path.panic
             THEN [kind |-> "Panic", entities |-> <<>>, grid |-> g, mobile_entities |-> m]
             ELSE Walk(g, m, entity, start, path.end, path.traversed_tiles)

\* ------------------------------------------------------------------ actions
\* Positions a caller passes to add_entity: every cell and one row and one
\* column beyond the grid.
AddPositions == {Position(x, y) : x \in 0..Width, y \in 0..Height}

Movements == {Movement(d, dir) : d \in 0..MaxDistance, dir \in Directions}

\* GridRoom::new
Init ==
    /\ grid = [p \in Cells |-> None]
    /\ mobile_entities = [n \in {} |-> None]
    /\ result = Outcome("new", "Ok", <<>>)
    /\ placed_mobile = {}
    /\ adds = 0

AddEntity(entity, position, is_static) ==
    LET out == AddEntityOutcome(grid, mobile_entities, entity, position, is_static)
    IN  /\ result.kind # "Panic"
        /\ adds < MaxAdds
        /\ adds' = adds + 1
        /\ grid' = out.grid
        /\ mobile_entities' = out.mobile_entities
        /\ result' = Outcome("add_entity", out.kind, out.entities)
        /\ placed_mobile' = IF out.kind = "Ok" /\ ~is_static
                            THEN placed_mobile \cup {entity}
                            ELSE placed_mobile

\* move_entity(entity, movement).  The build profile decides what usize
\* overflow does (panic with overflow checks on, wrap with them off); either
\* build may be the one that runs the call.
MoveEntity(entity, movement) ==
    /\ result.kind # "Panic"
    /\ UNCHANGED <<placed_mobile, adds>>
    /\ \E out \in {MoveEntityOutcome(grid, mobile_entities, entity, movement, overflow_checks) :
                        overflow_checks \in BOOLEAN} :
          /\ result' = Outcome("move_entity", out.kind, out.entities)
          /\ grid' = out.grid
          /\ mobile_entities' = out.mobile_entities

Next ==
    \/ \E e \in Entities, p \in AddPositions, s \in BOOLEAN : AddEntity(e, p, s)
    \/ \E e \in Entities, mv \in Movements : MoveEntity(e, mv)

Spec == Init /\ [][Next]_vars

\* =========================================================================
\* Vocabulary of the claims
\* =========================================================================
\* p displaced by k tiles along dir: Up y+k, Down y-k, Left x-k, Right x+k
\* (over the integers, so a displaced position may lie off the grid).
Displace(p, dir, k) ==
    CASE dir = "Up" -> Position(p.x, p.y + k)
      [] dir = "Down" -> Position(p.x, p.y - k)
      [] dir = "Left" -> Position(p.x - k, p.y)
      [] dir = "Right" -> Position(p.x + k, p.y)

\* The cells of g that hold entity e.
CellsOf(g, e) == {p \in Cells : g[p] = e}

\* e is a mobile entity standing at its recorded position.
MobileAt(e, p) ==
    /\ e \in DOMAIN mobile_entities
    /\ mobile_entities[e] = p
    /\ p \in Cells
    /\ grid[p] = e

\* The first k tiles from p along dir are on the grid and empty.
FreeRun(p, dir, k) ==
    \A i \in 1..k : Displace(p, dir, i) \in Cells /\ grid[Displace(p, dir, i)] = None

\* The step leaves the room (grid and mobile index) as it was.
RoomUnchanged == grid' = grid /\ mobile_entities' = mobile_entities

\* The entry of name n in the index is the same before and after the step.
EntryUnchanged(n) ==
    /\ (n \in DOMAIN mobile_entities') = (n \in DOMAIN mobile_entities)
    /\ n \in DOMAIN mobile_entities => mobile_entities'[n] = mobile_entities[n]

Returned == {"Success", "Failure", "Collision", "Err"}

\* =========================================================================
\* Claims
\* =========================================================================

\* C1 (index consistency): in every state reachable from GridRoom::new by
\* add_entity and move_entity calls, for every name in mobile_entities the grid
\* cell at the recorded position holds the entity with exactly that name.
C1_IndexConsistency ==
    \A n \in DOMAIN mobile_entities :
        /\ mobile_entities[n] \in Cells
        /\ grid[mobile_entities[n]] = n

\* One move_entity(e, mv) step on a mobile entity e that returns, and what C2
\* says of it.
C2_Step(e, mv) ==
    (MoveEntity(e, mv) /\ e \in DOMAIN mobile_entities /\ result'.kind \in Returned)
        => /\ Cardinality(CellsOf(grid', e)) = 1
           /\ \A p \in CellsOf(grid, e) : p \notin CellsOf(grid', e) => grid'[p] = None

\* C2 (no ghost occupancy): after move_entity(A, m) on a mobile entity A, with
\* m a Movement of distance >= 1, returns with any outcome (Success, Failure,
\* Collision or Err), exactly one grid cell holds A, and a cell that held A
\* before the call and is not its resting cell is empty.
C2_NoGhostOccupancy ==
    [][\A e \in Entities, dir \in Directions, d \in 1..MaxDistance :
          C2_Step(e, Movement(d, dir))]_vars

\* One move_entity step over a free run of L tiles, and what C3 says of it.
C3_Step(e, dir, L) ==
    LET P == mobile_entities[e]
    IN  (/\ e \in DOMAIN mobile_entities
         /\ MobileAt(e, P)
         /\ FreeRun(P, dir, L)
         /\ MoveEntity(e, Movement(L, dir)))
        => /\ result' = Outcome("move_entity", "Success", <<>>)
           /\ mobile_entities'[e] = Displace(P, dir, L)
           /\ grid'[Displace(P, dir, L)] = e

\* C3 (bounded slide): a mobile entity at P whose L >= 1 tiles along the
\* direction are all on the grid and empty is moved by move_entity(distance L)
\* to P displaced by L (recorded position and grid cell), and the call
\* returns Success.
C3_BoundedSlide ==
    [][\A e \in Entities, dir \in Directions, L \in 1..MaxDistance :
          C3_Step(e, dir, L)]_vars

\* One move_entity step of distance d whose first occupied tile is tile i,
\* held by another entity B, and what C4 says of it.
C4_Step(e, dir, d, i) ==
    LET P == mobile_entities[e]
        B == grid[Displace(P, dir, i)]
    IN  (/\ e \in DOMAIN mobile_entities
         /\ MobileAt(e, P)
         /\ FreeRun(P, dir, i - 1)
         /\ Displace(P, dir, i) \in Cells
         /\ B \notin {None, e}
         /\ MoveEntity(e, Movement(d, dir)))
        => /\ result' = Outcome("move_entity", "Collision", <<e, B>>)
           /\ mobile_entities'[e] = Displace(P, dir, i - 1)
           /\ grid'[Displace(P, dir, i - 1)] = e
           /\ grid'[P] = None
           /\ grid'[Displace(P, dir, i)] = B
           /\ EntryUnchanged(B)

\* C4 (collision stop): when the first occupied tile on A's path is tile i >= 2
\* (tiles 1..i-1 on the grid and empty, tile i on the grid and held by B),
\* move_entity returns Collision([A, B]), A rests on tile i-1 (recorded
\* position and grid cell), A's start cell is empty, and B's cell and index
\* entry are unchanged.
C4_CollisionStop ==
    [][\A e \in Entities, dir \in Directions, d \in 2..MaxDistance :
          \A i \in 2..d : C4_Step(e, dir, d, i)]_vars

\* One move_entity step whose first tile is held by another entity B, and what
\* C5 says of it.
C5_Step(e, dir, d) ==
    LET P == mobile_entities[e]
        B == grid[Displace(P, dir, 1)]
    IN  (/\ e \in DOMAIN mobile_entities
         /\ MobileAt(e, P)
         /\ Displace(P, dir, 1) \in Cells
         /\ B \notin {None, e}
         /\ MoveEntity(e, Movement(d, dir)))
        => /\ result' = Outcome("move_entity", "Collision", <<e, B>>)
           /\ RoomUnchanged

\* C5 (adjacent collision): when the first tile of A's path is on the grid and
\* held by B, move_entity returns Collision carrying A and B, and A stays where
\* it was with the grid and the mobile index unchanged.
C5_AdjacentCollision ==
    [][\A e \in Entities, dir \in Directions, d \in 1..MaxDistance :
          C5_Step(e, dir, d)]_vars

\* One move_entity step whose first tile is off the grid, and what C6 says of it.
C6_Step(e, dir, d) ==
    LET P == mobile_entities[e]
    IN  (/\ e \in DOMAIN mobile_entities
         /\ MobileAt(e, P)
         /\ Displace(P, dir, 1) \notin Cells
         /\ MoveEntity(e, Movement(d, dir)))
        => /\ result' = Outcome("move_entity", "Err", <<>>)
           /\ RoomUnchanged

\* C6 (first-step out-of-bounds): for a mobile entity whose first tile along
\* the direction is off the grid, move_entity with any distance >= 1 returns
\* Err(OutOfBounds) and the grid and the mobile index are unchanged.
C6_FirstStepOutOfBounds ==
    [][\A e \in Entities, dir \in Directions, d \in 1..MaxDistance :
          C6_Step(e, dir, d)]_vars

\* One move_entity step of distance d whose path leaves the grid after K free
\* tiles, and what C7 says of it.
C7_Step(e, dir, d, K) ==
    LET P == mobile_entities[e]
    IN  (/\ e \in DOMAIN mobile_entities
         /\ MobileAt(e, P)
         /\ FreeRun(P, dir, K)
         /\ Displace(P, dir, K + 1) \notin Cells
         /\ MoveEntity(e, Movement(d, dir)))
        => /\ result' = Outcome("move_entity", "Failure", <<>>)
           /\ mobile_entities'[e] = Displace(P, dir, K)
           /\ grid'[Displace(P, dir, K)] = e

\* C7 (partial out-of-bounds): for a mobile entity whose path has K >= 1 tiles
\* on the grid and empty and then leaves the grid (distance > K), move_entity
\* returns Failure and the entity rests (recorded position and grid cell) on
\* its start displaced by K.
C7_PartialOutOfBounds ==
    [][\A e \in Entities, dir \in Directions, d \in 2..MaxDistance :
          \A K \in 1..(d - 1) : C7_Step(e, dir, d, K)]_vars

\* One add_entity step at a position off the grid, and what C8 says of it.
\* (Every add_entity step, and no move_entity step, changes `adds`.)
C8_Step(e, p, s) ==
    ((p.x >= Width \/ p.y >= Height) /\ AddEntity(e, p, s))
        => /\ result' = Outcome("add_entity", "Err", <<>>)
           /\ RoomUnchanged

\* C8 (placement bounds): add_entity at a position with x >= width or
\* y >= height returns Err(OutOfBounds) and leaves the grid and the mobile
\* index unchanged, whether is_static or not.
C8_PlacementBounds ==
    [][adds' # adds =>
          \A e \in Entities, p \in AddPositions, s \in BOOLEAN : C8_Step(e, p, s)]_vars

\* An add_entity off the grid has just returned Err in a room that holds a
\* mobile entity.
C8_Witness ==
    /\ result = Outcome("add_entity", "Err", <<>>)
    /\ \E n \in DOMAIN mobile_entities : grid[mobile_entities[n]] = n

\* One move_entity step on an entity that is not in the mobile index, or that
\* add_entity never placed as mobile, and what C9 says of it.
C9_Step(e, mv) ==
    ((e \notin DOMAIN mobile_entities \/ e \notin placed_mobile) /\ MoveEntity(e, mv))
        => /\ result' = Outcome("move_entity", "Err", <<>>)
           /\ RoomUnchanged

\* C9 (untracked entity): move_entity on an entity whose name is not in the
\* mobile index returns Err(OutOfBounds) for every movement and leaves the
\* grid and the mobile index unchanged; an entity never placed, or placed only
\* with is_static = true, is such an entity, so it is never moved as the
\* subject of move_entity.
C9_UntrackedEntity ==
    [][\A e \in Entities, mv \in Movements : C9_Step(e, mv)]_vars

\* One successful add_entity step, and what C10 says of it.
C10_Step(e, p, s) ==
    (AddEntity(e, p, s) /\ result'.kind = "Ok")
        => /\ p \in Cells
           /\ grid'[p] = e
           /\ \A q \in Cells \ {p} : grid'[q] = grid[q]
           /\ s => mobile_entities' = mobile_entities
           /\ ~s => /\ DOMAIN mobile_entities' = DOMAIN mobile_entities \cup {e}
                    /\ mobile_entities'[e] = p
                    /\ \A n \in DOMAIN mobile_entities \ {e} : EntryUnchanged(n)

\* C10 (placement effect): a successful add_entity(e, p, is_static) sets the
\* cell at p to e whatever it held before, leaves every other grid cell
\* unchanged, and changes the mobile index only by setting e -> p when
\* is_static is false (the index is untouched when is_static is true).
C10_PlacementEffect ==
    [][(adds' # adds /\ result'.kind = "Ok") =>
          \A e \in Entities, p \in AddPositions, s \in BOOLEAN : C10_Step(e, p, s)]_vars

\* A successful static add_entity has just overwritten a mobile entity: the
\* cell the index records for n holds another entity, which the index does
\* not list.
C10_Witness ==
    /\ result = Outcome("add_entity", "Ok", <<>>)
    /\ \E n \in DOMAIN mobile_entities :
          /\ grid[mobile_entities[n]] \notin {n, None}
          /\ grid[mobile_entities[n]] \notin DOMAIN mobile_entities

\* The outcome of move_entity(e, Up d) on the current room, and of
\* move_entity(e, Down d) on the room an outcome `up` left, each call run by
\* the build with overflow checks oc.
C11_Up(e, d, oc) ==
    MoveEntityOutcome(grid, mobile_entities, e, Movement(d, "Up"), oc)

C11_Down(up, e, d, oc) ==
    MoveEntityOutcome(up.grid, up.mobile_entities, e, Movement(d, "Down"), oc)

\* C11 (vertical round trip): in every reachable room, for a mobile entity
\* whose d >= 1 tiles above it are on the grid and empty, move_entity Up by d
\* followed by move_entity Down by d both return Success, and the grid and
\* the mobile index end exactly as they were before the two moves.
C11_VerticalRoundTrip ==
    \A e \in DOMAIN mobile_entities, d \in 1..MaxDistance :
        (MobileAt(e, mobile_entities[e]) /\ FreeRun(mobile_entities[e], "Up", d))
            => \A oc1 \in BOOLEAN :
                  LET up == C11_Up(e, d, oc1)
                  IN  /\ up.kind = "Success"
                      /\ \A oc2 \in BOOLEAN :
                            LET down == C11_Down(up, e, d, oc2)
                            IN  /\ down.kind = "Success"
                                /\ down.grid = grid
                                /\ down.mobile_entities = mobile_entities

\* A room reached by a successful move_entity in which an entity has a free
\* run above it, the Up move takes it off its cell and the Down move brings
\* the room back, while another entity is on the grid.
C11_Witness ==
    /\ result = Outcome("move_entity", "Success", <<>>)
    /\ \E e \in DOMAIN mobile_entities, d \in 2..MaxDistance :
          /\ MobileAt(e, mobile_entities[e])
          /\ FreeRun(mobile_entities[e], "Up", d)
          /\ C11_Up(e, d, TRUE).grid # grid
          /\ C11_Up(e, d, TRUE).mobile_entities[e] = Displace(mobile_entities[e], "Up", d)
          /\ C11_Down(C11_Up(e, d, TRUE), e, d, TRUE).grid = grid
          /\ \E p \in Cells : grid[p] \notin {None, e}

\* What C12 says of the path computed from start for distance d along dir, by
\* the build with overflow checks oc (when that computation completes).
C12_PathOf(start, dir, d, oc) ==
    LET path == Path(start, Movement(d, dir), oc)
    IN  ~path.panic
            => /\ Len(path.traversed_tiles) = d
               /\ \A i \in 1..Len(path.traversed_tiles) :
                     path.traversed_tiles[i] = Displace(start, dir, i)
               /\ path.traversed_tiles[Len(path.traversed_tiles)] = path.end

\* C12 (path enumeration): for every start position recorded for a mobile
\* entity, every direction and every distance d >= 1, the traversed-tile
\* sequence move_entity computes has exactly d tiles, its i-th tile is the
\* start displaced by i steps along the direction, and its last tile is the
\* computed end position.
C12_PathEnumeration ==
    \A n \in DOMAIN mobile_entities, dir \in Directions, d \in 1..MaxDistance,
       oc \in BOOLEAN :
        C12_PathOf(mobile_entities[n], dir, d, oc)

\* One move_entity(e, mv) step that returns, made on a mobile entity standing
\* on its recorded cell P, and what C13 says of it.
C13_Step(e, mv) ==
    LET P == mobile_entities[e]
    IN  (/\ e \in DOMAIN mobile_entities
         /\ MobileAt(e, P)
         /\ MoveEntity(e, mv)
         /\ result'.kind \in Returned)
        => /\ \A q \in Cells :
                 grid'[q] # grid[q] => (q = P \/ q = mobile_entities'[e])
           /\ \A n \in Entities \ {e} : EntryUnchanged(n)
           /\ \A q \in Cells : grid[q] \notin {None, e} => grid'[q] = grid[q]

\* C13 (move frame): move_entity(A, m), with m of distance >= 1, changes no
\* grid cell other than A's start cell and A's resting cell and no
\* mobile-index entry other than A's; a cell held by another entity still
\* holds that entity afterwards.
C13_MoveFrame ==
    [][\A e \in Entities, dir \in Directions, d \in 1..MaxDistance :
          C13_Step(e, Movement(d, dir))]_vars

\* C14 (no abort): in every reachable state, a move_entity call with any
\* entity, any direction and any distance >= 1 completes with Success,
\* Failure, Collision or Err(OutOfBounds); it never aborts.
C14_NoAbort ==
    [][\A e \in Entities, dir \in Directions, d \in 1..MaxDistance :
          MoveEntity(e, Movement(d, dir)) => result'.kind \in Returned]_vars

\* One move_entity(e, {dir, d}) step that returns an Ok outcome, and what C15
\* says of it.
C15_Step(e, dir, d) ==
    (/\ e \in DOMAIN mobile_entities
     /\ MoveEntity(e, Movement(d, dir))
     /\ result'.kind \in {"Success", "Failure", "Collision"})
        => /\ e \in DOMAIN mobile_entities'
           /\ \E k \in 0..d : mobile_entities'[e] = Displace(mobile_entities[e], dir, k)

\* C15 (no overshoot): after move_entity(A, {direction, distance}) returns an
\* Ok outcome, A's recorded position is its recorded position before the call
\* displaced along the requested direction by some k with 0 <= k <= distance.
C15_NoOvershoot ==
    [][\A e \in Entities, dir \in Directions, d \in 0..MaxDistance :
          C15_Step(e, dir, d)]_vars

\* One move_entity step of distance 0 on a mobile entity standing on its
\* recorded cell, and what C16 says of it.
C16_Step(e, dir) ==
    LET P == mobile_entities[e]
    IN  (/\ e \in DOMAIN mobile_entities
         /\ MobileAt(e, P)
         /\ MoveEntity(e, Movement(0, dir)))
        => /\ RoomUnchanged
           /\ grid'[P] = e

\* C16 (zero-distance move): move_entity with distance 0 on a mobile entity
\* leaves the grid and the mobile index unchanged, so the entity still
\* occupies its cell afterwards.
C16_ZeroDistance ==
    [][\A e \in Entities, dir \in Directions : C16_Step(e, dir)]_vars

\* C17 (index in bounds): in every state reachable by add_entity and
\* move_entity calls, every position recorded in mobile_entities has
\* x < width and y < height of the room's grid.
C17_IndexInBounds ==
    \A n \in DOMAIN mobile_entities :
        mobile_entities[n].x < Width /\ mobile_entities[n].y < Height

\* A move_entity whose path left the grid has just returned Failure and the
\* mover, alone on the grid, is recorded on the last row or column.
C17_Witness ==
    /\ result = Outcome("move_entity", "Failure", <<>>)
    /\ Cardinality({p \in Cells : grid[p] # None}) = 1
    /\ \E n \in DOMAIN mobile_entities :
          /\ grid[mobile_entities[n]] = n
          /\ mobile_entities[n].x = Width - 1 \/ mobile_entities[n].y = Height - 1

====
